---- MODULE Spec2Model ----
(***************************************************************************)
(* OriginRoleToRBACRoleController                                          *)
(* (pkg/authorization/controller/authorizationsync/                        *)
(*  origin_to_rbac_role_controller.go).                                    *)
(*                                                                         *)
(* The controller projects origin Roles, which arrive nested in a Policy   *)
(* (the Container), onto RBAC Roles.  It reads RBAC roles through          *)
(* rbacLister (the RBAC informer's cache), reads origin roles through      *)
(* originLister (backed by originIndexer, which the policy event handler   *)
(* fills), and writes RBAC roles through rbacClient (the API server).      *)
(*                                                                         *)
(* A key "namespace/name" is modelled as the sequence of its "/"-separated *)
(* segments.  Each handler is one action.                                  *)
(*                                                                         *)
(* Specifications:                                                         *)
(*   Spec           one role name in use, any number of notifications,     *)
(*                  writes of other clients and faults;                    *)
(*   SpecTwoRoles   two role names in use;                                 *)
(*   SpecMalformed  Policies that also nest a role whose name holds a "/"  *)
(*                  and an object without metadata;                        *)
(*   SpecFair       an environment that comes to rest, workers and RBAC    *)
(*                  informer scheduled fairly;                             *)
(*   SpecIngest     the handlers run one loop statement per step.          *)
(***************************************************************************)
EXTENDS Integers, Sequences, FiniteSets, TLC

\* ---------------------------------------------------------------- bounds
\* The API server's version counter stops at versionCap: from there on every
\* create and update is answered with a server error.  The cap is MaxVersion
\* where one role name is in use, MaxVersionTwoRoles where two are and
\* MaxVersionMalformed where Policies also nest malformed objects.  Where two
\* role names are in use the environment has MaxDisturbancesTwoRoles
\* notifications, writes of other clients and faults in store.
MaxVersion == 3
MaxVersionTwoRoles == 2
MaxDisturbancesTwoRoles == 3
MaxVersionMalformed == 2

\* Where the environment is bound to come to rest, it has MaxDisturbances
\* notifications, writes of other clients and faults in store, and the
\* version counter's cap, MaxVersionFair, is out of reach.
MaxDisturbances == 3
MaxVersionFair == 7

\* Where the handlers run one loop statement at a time.
MaxDisturbancesIngest == 4
MaxVersionIngest == 2

\* ------------------------------------------------------------- universe
Namespace == "a"
Names == {"r1", "r2"}

\* The rule payloads a role can carry.
RuleSets == {<<"R1">>, <<"R1", "R2">>}

\* Absence of an object (a Get that found nothing, a map without the entry).
NoRole == [absent |-> TRUE]
NoPolicy == [absent |-> TRUE]

\* Error values.  Nil is Go's nil error.
Nil == "nil"
ErrNotFound == "NotFound"
ErrAlreadyExists == "AlreadyExists"
ErrConflict == "Conflict"
ErrInvalid == "Invalid"
ErrServer == "ServerTimeout"
ErrInternal == "InternalError"
ErrBadKey == "unexpected key format"

\* apierrors.IsNotFound / apierrors.IsInvalid
IsNotFound(err) == err = ErrNotFound

\* Mutant: every error of the update counts as an invalid update.
IsInvalid_AnyError(err) == err # Nil

IsInvalid(err) == err = ErrInvalid

\* ---------------------------------------------------------------- keys
\* A role name that holds a "/", and the map key of a nested object whose
\* metadata cannot be read (one for which the key function returns an error).
SlashName == "x/y"
NoMeta == "nometa"
AllNames == Names \cup {SlashName, NoMeta}

ErrNoMeta == "object has no meta"

\* The "/"-separated segments of a name.
NameSegments(name) == IF name = SlashName THEN <<"x", "y">> ELSE <<name>>

\* cache.MetaNamespaceKeyFunc / controller.KeyFunc on an object's metadata:
\* "<namespace>/<name>", or "<name>" when the namespace is empty; an error
\* when the object has no metadata.
KeyFunc(obj) ==
    CASE "name" \notin DOMAIN obj -> [key |-> <<>>, err |-> ErrNoMeta]
      [] obj.namespace = "" -> [key |-> NameSegments(obj.name), err |-> Nil]
      [] OTHER -> [key |-> <<obj.namespace>> \o NameSegments(obj.name), err |-> Nil]

\* Mutant: segments after the second are ignored.
SplitMetaNamespaceKey_Lenient(key) ==
    IF Len(key) = 1 THEN [namespace |-> "", name |-> key[1], err |-> Nil]
                    ELSE [namespace |-> key[1], name |-> key[2], err |-> Nil]

\* cache.SplitMetaNamespaceKey: one segment is a bare name, two are
\* namespace and name, anything else is an error.
SplitMetaNamespaceKey(key) ==
    CASE Len(key) = 1 -> [namespace |-> "", name |-> key[1], err |-> Nil]
      [] Len(key) = 2 -> [namespace |-> key[1], name |-> key[2], err |-> Nil]
      [] OTHER -> [namespace |-> "", name |-> "", err |-> ErrBadKey]

\* An origin Role as it sits in a Policy's Roles map.
OriginRole(ns, name, rules) == [namespace |-> ns, name |-> name, rules |-> rules]

\* A nested object without metadata.
BareRole(rules) == [rules |-> rules]

Keys == {KeyFunc(OriginRole(Namespace, n, <<>>)).key : n \in Names}

\* The keys originIndexer can hold an object under.
IndexKeys == Keys \cup {KeyFunc(OriginRole(Namespace, SlashName, <<>>)).key}

\* The rule payloads tried for a name.
RulesFor(n) == IF n = "r1" THEN RuleSets ELSE {<<"R1">>}

\* The Policies of the namespace: each lists some of the names, with rules.
RoleMaps ==
    UNION {{m \in [S -> RuleSets] : \A n \in S : m[n] \in RulesFor(n)} :
             S \in SUBSET AllNames}
Policies == {[namespace |-> Namespace, roles |-> m] : m \in RoleMaps}

\* The Policies that list only names of S.
PoliciesOver(S) == {p \in Policies : DOMAIN p.roles \subseteq S}

\* The objects nested in a Policy (originContainerObj.Roles).
RolesOf(p) ==
    {IF n = NoMeta THEN BareRole(p.roles[n])
                   ELSE OriginRole(p.namespace, n, p.roles[n]) : n \in DOMAIN p.roles}

\* ------------------------------------------------------------ converter
\* Identity metadata as the converter leaves it.
DefaultSelfLink == <<>>
DefaultUID == 0
DefaultResourceVersion == 0
DefaultCreationTimestamp == 0

\* authorizationapi.Convert_api_Role_To_rbac_Role: the rule payload in the
\* RBAC shape, identity metadata left at its defaults.
Convert_api_Role_To_rbac_Role(in) ==
    [namespace |-> in.namespace, name |-> in.name, rules |-> in.rules,
     selfLink |-> DefaultSelfLink, uid |-> DefaultUID,
     resourceVersion |-> DefaultResourceVersion,
     creationTimestamp |-> DefaultCreationTimestamp]

VARIABLES
    roleNames,      \* the role names in use in the namespace
    versionCap,     \* where the API server's version counter stops
    policy,         \* the namespace's Policy as last notified: NoPolicy (none
                    \* yet), the live Policy, or Deleted(the Policy deleted)
    originIndexer,  \* c.originIndexer: key -> origin Role or NoRole
    rbacStore,      \* the API server's RBAC roles: key -> rbac Role or NoRole
    rbacLister,     \* c.rbacLister, the RBAC informer's cache of rbacStore
    rbacEvents,     \* the keys of the RBAC roles whose latest change in
                    \* rbacStore has not reached the RBAC informer yet
    clock,          \* the API server's version counter
    queue,          \* c.queue: the set of pending keys
    settled,        \* per key: "current" or "stale" when the key's latest
                    \* syncRole returned success (having read from the lister
                    \* the store's current entry, or a stale one) and neither the
                    \* origin role nor the stored RBAC role changed since; else "no"
    last,           \* the syncRole invocation of the step that led here, if any
    healed,         \* per key: TRUE when the key's latest syncRole deleted the
                    \* RBAC role after an invalid update
    budget,         \* how many more notifications, writes of other clients and
                    \* faults the environment has in store, or Unbounded
    panicked,       \* NoPanic, or the handler that panicked and its argument
    ingest          \* where the handlers run one loop step at a time: the
                    \* handler in progress and, per key, the notifications
                    \* that last upserted and last enqueued it

vars == <<roleNames, versionCap, policy, originIndexer, rbacStore, rbacLister,
          rbacEvents, clock, queue, settled, last, healed, budget, panicked, ingest>>

\* The environment's budget and its use.
Unbounded == [bounded |-> FALSE, left |-> 0]
Bounded(n) == [bounded |-> TRUE, left |-> n]
CanSpend == ~budget.bounded \/ budget.left > 0
Spend(b) == IF b.bounded THEN [b EXCEPT !.left = @ - 1] ELSE b

\* An unrecovered panic ends the process.
NoPanic == [panic |-> FALSE]
Running == panicked = NoPanic

\* ------------------------------------------------------ the two readers
\* The listers index by "<namespace>/<name>", whatever the namespace.
LookupKey(namespace, name) == <<namespace, name>>

Lookup(map, k) == IF k \in DOMAIN map THEN map[k] ELSE NoRole

\* rbacLister.Roles(namespace).Get(name) and originLister.Roles(namespace).Get(name):
\* the cached object, a NotFound error, or (fail) another error.
ListerGet(cache, namespace, name, fail) ==
    LET obj == Lookup(cache, LookupKey(namespace, name)) IN
    CASE fail -> [obj |-> NoRole, err |-> ErrInternal]
      [] obj = NoRole -> [obj |-> NoRole, err |-> ErrNotFound]
      [] OTHER -> [obj |-> obj, err |-> Nil]

\* ------------------------------------------------- the API server (rbacClient)
\* fault is what the environment does to the call: "none", "transient" (the
\* server or the network fails) or "invalid" (validation rejects the update).
WriteFaults == {"none", "transient", "invalid"}
DeleteFaults == {"none", "transient"}

\* What can go wrong during one syncRole: a lookup fails (rbacFail, originFail),
\* the create or update call meets fault w1, the delete call meets fault w2.
Fault(rbacFail, originFail, w1, w2) ==
    [rbacFail |-> rbacFail, originFail |-> originFail, w1 |-> w1, w2 |-> w2]

Faults ==
    { Fault(FALSE, FALSE, "none", "none"),
      Fault(TRUE, FALSE, "none", "none"),
      Fault(FALSE, TRUE, "none", "none"),
      Fault(FALSE, FALSE, "transient", "transient"),
      Fault(FALSE, FALSE, "invalid", "none"),
      Fault(FALSE, FALSE, "invalid", "transient") }

SelfLinkOf(namespace, name) == <<"roles", namespace, name>>

\* rbacClient.Roles(namespace).Create(obj)
ClientCreate(store, clk, obj, fault) ==
    LET k == LookupKey(obj.namespace, obj.name) IN
    CASE fault = "transient" \/ clk >= versionCap ->
            [err |-> ErrServer, store |-> store, clock |-> clk]
      [] obj.resourceVersion # DefaultResourceVersion ->
            [err |-> "BadRequest", store |-> store, clock |-> clk]
      [] k \notin DOMAIN store ->
            [err |-> ErrNotFound, store |-> store, clock |-> clk]
      [] store[k] # NoRole ->
            [err |-> ErrAlreadyExists, store |-> store, clock |-> clk]
      [] OTHER ->
            [err |-> Nil,
             store |-> [store EXCEPT ![k] =
                          [obj EXCEPT !.selfLink = SelfLinkOf(obj.namespace, obj.name),
                                      !.uid = clk + 1,
                                      !.resourceVersion = clk + 1,
                                      !.creationTimestamp = clk + 1]],
             clock |-> clk + 1]

\* rbacClient.Roles(namespace).Update(obj)
ClientUpdate(store, clk, obj, fault) ==
    LET k == LookupKey(obj.namespace, obj.name)
        old == Lookup(store, k) IN
    CASE fault = "transient" \/ clk >= versionCap ->
            [err |-> ErrServer, store |-> store, clock |-> clk]
      [] old = NoRole ->
            [err |-> ErrNotFound, store |-> store, clock |-> clk]
      [] obj.resourceVersion # DefaultResourceVersion
           /\ obj.resourceVersion # old.resourceVersion ->
            [err |-> ErrConflict, store |-> store, clock |-> clk]
      [] fault = "invalid" \/ obj.uid # old.uid
           \/ obj.creationTimestamp # old.creationTimestamp ->
            [err |-> ErrInvalid, store |-> store, clock |-> clk]
      [] OTHER ->
            [err |-> Nil,
             store |-> [store EXCEPT ![k] =
                          [obj EXCEPT !.selfLink = old.selfLink,
                                      !.resourceVersion = clk + 1]],
             clock |-> clk + 1]

\* rbacClient.Roles(namespace).Delete(name, nil)
ClientDelete(store, clk, namespace, name, fault) ==
    LET k == LookupKey(namespace, name) IN
    CASE fault = "transient" ->
            [err |-> ErrServer, store |-> store, clock |-> clk]
      [] Lookup(store, k) = NoRole ->
            [err |-> ErrNotFound, store |-> store, clock |-> clk]
      [] OTHER ->
            [err |-> Nil, store |-> [store EXCEPT ![k] = NoRole], clock |-> clk]

\* One call as the client saw it.
Call(op, namespace, name, obj, err) ==
    [op |-> op, namespace |-> namespace, name |-> name, obj |-> obj, err |-> err]

\* ------------------------------------------------------------- syncRole
\* What one invocation returns and leaves behind.
Ret(err, calls, store, clk, rbacRole, rbacErr, originRole, originErr) ==
    [err |-> err, calls |-> calls, store |-> store, clock |-> clk,
     rbacRole |-> rbacRole, rbacErr |-> rbacErr,
     originRole |-> originRole, originErr |-> originErr]

\* A lookup that was not reached.
NotRead == "not read"

\* Mutant: the version token is not copied from the existing role.
StompIdentity_KeepVersion(equivalentRole, rbacRole) ==
    [equivalentRole EXCEPT !.selfLink = rbacRole.selfLink,
                           !.uid = rbacRole.uid,
                           !.creationTimestamp = rbacRole.creationTimestamp]

\* Mutant: the existing role is taken whole, its rules included.
StompIdentity_TakeExisting(equivalentRole, rbacRole) == rbacRole

\* "stomp fields that are never going to match like uid and creation time"
StompIdentity(equivalentRole, rbacRole) ==
    [equivalentRole EXCEPT !.selfLink = rbacRole.selfLink,
                           !.uid = rbacRole.uid,
                           !.resourceVersion = rbacRole.resourceVersion,
                           !.creationTimestamp = rbacRole.creationTimestamp]

\* Mutant: the two pointers are compared, which never are the same.
SemanticDeepEqual_Pointers(equivalentRole, rbacRole) == FALSE

\* kapi.Semantic.DeepEqual(equivalentRole, rbacRole)
SemanticDeepEqual(equivalentRole, rbacRole) == equivalentRole = rbacRole

\* Mutant: every RBAC role of the namespace is deleted.
OrphanDelete_DeletesNamespace(namespace, name, rbacRole, fault) ==
    LET d == ClientDelete(rbacStore, clock, namespace, name, fault)
        emptied == [k \in DOMAIN rbacStore |->
                      IF k[1] = namespace THEN NoRole ELSE rbacStore[k]] IN
    Ret(d.err, <<Call("delete", namespace, name, NoRole, d.err)>>,
        IF d.err = Nil THEN emptied ELSE d.store, d.clock,
        rbacRole, Nil, NoRole, ErrNotFound)

\* Mutant: the orphaned role is left alone.
OrphanDelete_Skipped(namespace, name, rbacRole, fault) ==
    Ret(Nil, <<>>, rbacStore, clock, rbacRole, Nil, NoRole, ErrNotFound)

\* "if the origin role doesn't exist, just delete the rbac role"
OrphanDelete(namespace, name, rbacRole, fault) ==
    LET d == ClientDelete(rbacStore, clock, namespace, name, fault) IN
    Ret(d.err, <<Call("delete", namespace, name, NoRole, d.err)>>,
        d.store, d.clock, rbacRole, Nil, NoRole, ErrNotFound)

\* Mutant: the missing role is written with Update.
CreateMissing_Updates(namespace, name, equivalentRole, originRole, fault) ==
    LET obj == [equivalentRole EXCEPT !.resourceVersion = DefaultResourceVersion]
        u == ClientUpdate(rbacStore, clock, obj, fault) IN
    Ret(u.err, <<Call("update", namespace, name, obj, u.err)>>,
        u.store, u.clock, NoRole, ErrNotFound, originRole, Nil)

\* Mutant: the error of the create call is dropped.
CreateMissing_DropsError(namespace, name, equivalentRole, originRole, fault) ==
    LET obj == [equivalentRole EXCEPT !.resourceVersion = DefaultResourceVersion]
        c == ClientCreate(rbacStore, clock, obj, fault) IN
    Ret(Nil, <<Call("create", namespace, name, obj, c.err)>>,
        c.store, c.clock, NoRole, ErrNotFound, originRole, Nil)

\* "if we're missing the rbacRole, create it"
CreateMissing(namespace, name, equivalentRole, originRole, fault) ==
    LET obj == [equivalentRole EXCEPT !.resourceVersion = DefaultResourceVersion]
        c == ClientCreate(rbacStore, clock, obj, fault) IN
    Ret(c.err, <<Call("create", namespace, name, obj, c.err)>>,
        c.store, c.clock, NoRole, ErrNotFound, originRole, Nil)

\* Mutant: after an invalid update the delete's error is what is returned.
UpdateExisting_ReturnsDeleteError(namespace, name, equivalentRole, rbacRole, originRole, w1, w2) ==
    LET u == ClientUpdate(rbacStore, clock, equivalentRole, w1)
        d == ClientDelete(u.store, u.clock, namespace, name, w2)
        updateCall == Call("update", namespace, name, equivalentRole, u.err) IN
    IF IsInvalid(u.err)
    THEN Ret(d.err, <<updateCall, Call("delete", namespace, name, NoRole, d.err)>>,
             d.store, d.clock, rbacRole, Nil, originRole, Nil)
    ELSE Ret(u.err, <<updateCall>>, u.store, u.clock, rbacRole, Nil, originRole, Nil)

\* The update and, "if the update was invalid", the delete after it, whose
\* own error is dropped.
UpdateExisting(namespace, name, equivalentRole, rbacRole, originRole, w1, w2) ==
    LET u == ClientUpdate(rbacStore, clock, equivalentRole, w1)
        d == ClientDelete(u.store, u.clock, namespace, name, w2)
        updateCall == Call("update", namespace, name, equivalentRole, u.err) IN
    IF IsInvalid(u.err)
    THEN Ret(u.err, <<updateCall, Call("delete", namespace, name, NoRole, d.err)>>,
             d.store, d.clock, rbacRole, Nil, originRole, Nil)
    ELSE Ret(u.err, <<updateCall>>, u.store, u.clock, rbacRole, Nil, originRole, Nil)

\* syncRole(key).  rbacFail and originFail make the lookups fail with an error
\* other than NotFound; w1 is the fault of the create or update call, w2 the
\* fault of the delete call.
syncRole(key, rbacFail, originFail, w1, w2) ==
    LET sp == SplitMetaNamespaceKey(key)
        namespace == sp.namespace
        name == sp.name
        rbacGet == ListerGet(rbacLister, namespace, name, rbacFail)
        rbacRole == rbacGet.obj
        rbacErr == rbacGet.err
        originGet == ListerGet(originIndexer, namespace, name, originFail)
        originRole == originGet.obj
        originErr == originGet.err
        \* conversion, then a deep copy: a value that shares nothing
        equivalentRole == Convert_api_Role_To_rbac_Role(originRole)
        stomped == StompIdentity(equivalentRole, rbacRole)
    IN
    CASE sp.err # Nil ->
            Ret(sp.err, <<>>, rbacStore, clock, NoRole, NotRead, NoRole, NotRead)
      [] ~IsNotFound(rbacErr) /\ rbacErr # Nil ->
            Ret(rbacErr, <<>>, rbacStore, clock, NoRole, rbacErr, NoRole, NotRead)
      [] ~IsNotFound(originErr) /\ originErr # Nil ->
            Ret(originErr, <<>>, rbacStore, clock, rbacRole, rbacErr, NoRole, originErr)
      [] IsNotFound(rbacErr) /\ IsNotFound(originErr) ->
            Ret(Nil, <<>>, rbacStore, clock, NoRole, rbacErr, NoRole, originErr)
      [] IsNotFound(originErr) ->
            OrphanDelete(namespace, name, rbacRole, w2)
      [] IsNotFound(rbacErr) ->
            CreateMissing(namespace, name, equivalentRole, originRole, w1)
      [] SemanticDeepEqual(stomped, rbacRole) ->
            Ret(Nil, <<>>, rbacStore, clock, rbacRole, Nil, originRole, Nil)
      [] OTHER ->
            UpdateExisting(namespace, name, stomped, rbacRole, originRole, w1, w2)

\* ------------------------------------------------------------ work queue
NoSync ==
    [key |-> <<>>, rbacRole |-> NoRole, rbacErr |-> NotRead,
     originRole |-> NoRole, originErr |-> NotRead, stored |-> NoRole,
     calls |-> <<>>, err |-> Nil, replay |-> "no", healed |-> FALSE]

\* The calls of a syncRole whose update was invalid and whose delete succeeded.
SelfHealed(calls) ==
    /\ Len(calls) = 2
    /\ calls[1].op = "update" /\ calls[1].err = ErrInvalid
    /\ calls[2].op = "delete" /\ calls[2].err = Nil

\* A syncRole during which nothing fails but what the store itself refuses.
NoFault == Fault(FALSE, FALSE, "none", "none")

\* The worker: take a pending key, run syncRole, forget the key on success and
\* put it back (rate limited) on error.
processNextWorkItem(key) ==
    /\ Running
    /\ key \in queue
    /\ \E f \in Faults :
         LET r == syncRole(key, f.rbacFail, f.originFail, f.w1, f.w2)
             sp == SplitMetaNamespaceKey(key)
             k == LookupKey(sp.namespace, sp.name)
         IN
         /\ f # NoFault => CanSpend
         /\ budget' = IF f = NoFault THEN budget ELSE Spend(budget)
         /\ rbacStore' = r.store
         /\ rbacEvents' = IF r.store = rbacStore THEN rbacEvents
                                                 ELSE rbacEvents \cup {k}
         /\ clock' = r.clock
         /\ queue' = IF r.err = Nil THEN queue \ {key} ELSE queue
         /\ last' = [key |-> key,
                     rbacRole |-> r.rbacRole, rbacErr |-> r.rbacErr,
                     originRole |-> r.originRole, originErr |-> r.originErr,
                     stored |-> Lookup(rbacStore, k),
                     calls |-> r.calls, err |-> r.err,
                     replay |-> IF k \in Keys THEN settled[k] ELSE "no",
                     healed |-> IF k \in Keys THEN healed[k] ELSE FALSE]
         /\ settled' = [j \in Keys |->
                          CASE j # k -> settled[j]
                            [] r.err # Nil -> "no"
                            [] r.rbacRole = Lookup(rbacStore, k) -> "current"
                            [] OTHER -> "stale"]
         /\ healed' = [j \in Keys |->
                          IF j # k THEN healed[j] ELSE SelfHealed(r.calls)]
    /\ UNCHANGED <<ingest, roleNames, versionCap, policy, originIndexer, rbacLister, panicked>>

\* ------------------------------------------------------ policy event handler
\* The loop of the three handlers: upsert each nested role, then enqueue its key.
\* AddFunc, UpdateFunc and DeleteFunc below run a handler as one step and leave
\* ingest alone; HandlerEnter and HandlerStep run it statement by statement.
IndexerAfter(roles) ==
    LET keyed == {r \in roles : KeyFunc(r).err = Nil} IN
    [k \in DOMAIN originIndexer |->
        IF \E r \in keyed : KeyFunc(r).key = k
        THEN CHOOSE r \in keyed : KeyFunc(r).key = k
        ELSE originIndexer[k]]

\* Mutant: the loop returns at an object without a key (met first).
QueueAfter_ReturnsAtKeyless(roles) ==
    IF \E r \in roles : KeyFunc(r).err # Nil
    THEN queue
    ELSE queue \cup {KeyFunc(r).key : r \in roles}

QueueAfter(roles) ==
    queue \cup {KeyFunc(r).key : r \in {x \in roles : KeyFunc(x).err = Nil}}

\* The settled keys whose origin role the upserts leave as it was.
SettledAfter(roles) ==
    [k \in Keys |->
        IF IndexerAfter(roles)[k] = originIndexer[k] THEN settled[k] ELSE "no"]

\* A deleted Policy, remembered with its last known value and with the keys
\* that had an RBAC role in the store when it was deleted.
Deleted(p) ==
    [deleted |-> TRUE, obj |-> p, derived |-> {k \in Keys : rbacStore[k] # NoRole}]

IsLive(p) == p \in Policies

Listed(p, k) == \E r \in RolesOf(p) : KeyFunc(r).err = Nil /\ KeyFunc(r).key = k

\* A notification, a write of another client: one more act of the environment.
Disturbs == CanSpend /\ budget' = Spend(budget)

\* AddFunc(obj)
AddFunc(obj) ==
    /\ Running /\ Disturbs
    /\ ~IsLive(policy)
    /\ policy' = obj
    /\ originIndexer' = IndexerAfter(RolesOf(obj))
    /\ queue' = QueueAfter(RolesOf(obj))
    /\ settled' = SettledAfter(RolesOf(obj))
    /\ last' = NoSync
    /\ UNCHANGED <<ingest, roleNames, versionCap, rbacStore, rbacLister, rbacEvents, clock,
                   healed, panicked>>

\* UpdateFunc(old, cur): old is not looked at.
UpdateFunc(old, cur) ==
    /\ Running /\ Disturbs
    /\ IsLive(policy)
    /\ old = policy
    /\ policy' = cur
    /\ originIndexer' = IndexerAfter(RolesOf(cur))
    /\ queue' = QueueAfter(RolesOf(cur))
    /\ settled' = SettledAfter(RolesOf(cur))
    /\ last' = NoSync
    /\ UNCHANGED <<ingest, roleNames, versionCap, rbacStore, rbacLister, rbacEvents, clock,
                   healed, panicked>>

\* A nil *Policy and a nil interface value.
NilPolicy == [nil |-> "*Policy"]
NilObject == [nil |-> "interface"]

\* An object that is neither a Policy nor a tombstone.
NotAPolicy == [kind |-> "Role"]

\* cache.DeletedFinalStateUnknown holding obj.
Tombstone(obj) == [tombstone |-> TRUE, obj |-> obj]

\* What the watch can hand to DeleteFunc when Policy p is deleted: the Policy
\* itself, a tombstone holding it, or an object or a tombstone it cannot decode.
DeletedObjects(p) == {p, Tombstone(p), NotAPolicy, Tombstone(NotAPolicy)}

\* The two type assertions of DeleteFunc: a failed assertion is reported and
\* leaves the zero value (an empty tombstone, a nil *Policy).
DecodeDeleted(obj) ==
    IF IsLive(obj)
    THEN obj
    ELSE LET tombstone == IF "tombstone" \in DOMAIN obj THEN obj
                                                     ELSE Tombstone(NilObject)
         IN IF IsLive(tombstone.obj) THEN tombstone.obj ELSE NilPolicy

\* Mutant: the roles of the deleted Policy are removed from originIndexer.
DeleteFunc_Removes(obj) ==
    /\ Running /\ Disturbs
    /\ IsLive(policy)
    /\ obj \in DeletedObjects(policy)
    /\ LET originContainerObj == DecodeDeleted(obj)
           gone == IF originContainerObj = NilPolicy THEN {}
                   ELSE {KeyFunc(r).key : r \in RolesOf(originContainerObj)}
       IN
         /\ originIndexer' = [k \in DOMAIN originIndexer |->
                                IF k \in gone THEN NoRole ELSE originIndexer[k]]
         /\ queue' = queue \cup gone
         /\ settled' = [k \in Keys |-> IF k \in gone THEN "no" ELSE settled[k]]
    /\ policy' = Deleted(policy)
    /\ last' = NoSync
    /\ UNCHANGED <<ingest, roleNames, versionCap, rbacStore, rbacLister, rbacEvents, clock,
                   healed, panicked>>

\* DeleteFunc(obj): ranging over the Roles of a nil *Policy is a nil pointer
\* dereference, a panic.
DeleteFunc(obj) ==
    /\ Running /\ Disturbs
    /\ IsLive(policy)
    /\ obj \in DeletedObjects(policy)
    /\ LET originContainerObj == DecodeDeleted(obj) IN
         IF originContainerObj = NilPolicy
         THEN /\ panicked' = [panic |-> TRUE, handler |-> "DeleteFunc", obj |-> obj]
              /\ UNCHANGED <<policy, originIndexer, queue, settled>>
         ELSE /\ originIndexer' = IndexerAfter(RolesOf(originContainerObj))
              /\ queue' = QueueAfter(RolesOf(originContainerObj))
              /\ settled' = SettledAfter(RolesOf(originContainerObj))
              /\ policy' = Deleted(policy)
              /\ panicked' = panicked
    /\ last' = NoSync
    /\ UNCHANGED <<ingest, roleNames, versionCap, rbacStore, rbacLister, rbacEvents, clock, healed>>

\* ------------------------------------------- the handlers, step by step
\* Mutant: the key is enqueued before the object is upserted.
LoopBody_EnqueueFirst == <<"enqueue", "upsert">>

\* The body of the handlers' loop: c.originIndexer.Add(originObj), then
\* KeyFunc and c.queue.Add(key).
LoopBody == <<"upsert", "enqueue">>

\* No handler is in progress: the informer delivers its notifications to a
\* handler one at a time.
Idle == ingest.todo = {} /\ ingest.cur = NoRole

\* A handler is entered with the Policy it was handed: obj for AddFunc, cur for
\* UpdateFunc, the Policy decoded from obj (the Policy or a tombstone holding
\* it) for DeleteFunc.  Its loop is yet to run.
HandlerEnter(handler, obj) ==
    /\ Running /\ Disturbs /\ Idle
    /\ CASE handler = "AddFunc" -> ~IsLive(policy) /\ IsLive(obj) /\ policy' = obj
         [] handler = "UpdateFunc" -> IsLive(policy) /\ IsLive(obj) /\ policy' = obj
         [] handler = "DeleteFunc" ->
               /\ IsLive(policy) /\ obj \in {policy, Tombstone(policy)}
               /\ policy' = Deleted(policy)
    /\ ingest' = [ingest EXCEPT !.todo = RolesOf(DecodeDeleted(obj)),
                                !.seq = @ + 1]
    /\ last' = NoSync
    /\ UNCHANGED <<roleNames, versionCap, originIndexer, rbacStore, rbacLister,
                   rbacEvents, clock, queue, settled, healed, panicked>>

\* One statement of the loop body on object r.
LoopStatement(what, r) ==
    LET keyed == KeyFunc(r).err = Nil
        k == KeyFunc(r).key IN
    CASE what = "upsert" ->
            /\ originIndexer' = IndexerAfter({r})
            /\ settled' = SettledAfter({r})
            /\ queue' = queue
            /\ ingest' = [ingest EXCEPT
                 !.upserted = IF keyed THEN [@ EXCEPT ![k] = ingest.seq] ELSE @,
                 !.cur = IF ingest.cur = NoRole THEN r ELSE NoRole,
                 !.todo = IF ingest.cur = NoRole THEN @ ELSE @ \ {r}]
      [] what = "enqueue" ->
            /\ queue' = QueueAfter({r})
            /\ originIndexer' = originIndexer
            /\ settled' = settled
            /\ ingest' = [ingest EXCEPT
                 !.enqueued = IF keyed THEN [@ EXCEPT ![k] = ingest.seq] ELSE @,
                 !.cur = IF ingest.cur = NoRole THEN r ELSE NoRole,
                 !.todo = IF ingest.cur = NoRole THEN @ ELSE @ \ {r}]

\* The handler in progress runs the next statement of its loop: the first of
\* the body on any object still to do (a map is ranged over in any order), or
\* the second on the object in hand.
HandlerStep ==
    /\ Running /\ ~Idle
    /\ IF ingest.cur = NoRole
       THEN \E r \in ingest.todo : LoopStatement(LoopBody[1], r)
       ELSE LoopStatement(LoopBody[2], ingest.cur)
    /\ last' = NoSync
    /\ UNCHANGED <<roleNames, versionCap, policy, rbacStore, rbacLister, rbacEvents,
                   clock, healed, budget, panicked>>

\* ----------------------------------------------------------- RBAC informer
\* The RBAC informer receives the events of one role and catches up with the
\* API server on it; its event handler (naiveEventHandler) enqueues the
\* role's key.
RbacInformerSync(k) ==
    /\ Running
    /\ k \in rbacEvents
    /\ rbacLister' = [rbacLister EXCEPT ![k] = rbacStore[k]]
    /\ rbacEvents' = rbacEvents \ {k}
    /\ queue' = queue \cup {k}
    /\ last' = NoSync
    /\ UNCHANGED <<ingest, roleNames, versionCap, policy, originIndexer, rbacStore, clock,
                   settled, healed, budget, panicked>>

\* Another client of the API server creates an RBAC role.
ExternalRbacCreate(k, rules) ==
    /\ Running /\ Disturbs
    /\ clock < versionCap
    /\ rbacStore[k] = NoRole
    /\ rbacStore' = [rbacStore EXCEPT ![k] =
          [namespace |-> k[1], name |-> k[2], rules |-> rules,
           selfLink |-> SelfLinkOf(k[1], k[2]), uid |-> clock + 1,
           resourceVersion |-> clock + 1, creationTimestamp |-> clock + 1]]
    /\ rbacEvents' = rbacEvents \cup {k}
    /\ clock' = clock + 1
    /\ settled' = [settled EXCEPT ![k] = "no"]
    /\ last' = NoSync
    /\ UNCHANGED <<ingest, roleNames, versionCap, policy, originIndexer, rbacLister, queue,
                   healed, panicked>>

\* Another client of the API server deletes an RBAC role.
ExternalRbacDelete(k) ==
    /\ Running /\ Disturbs
    /\ rbacStore[k] # NoRole
    /\ rbacStore' = [rbacStore EXCEPT ![k] = NoRole]
    /\ rbacEvents' = rbacEvents \cup {k}
    /\ settled' = [settled EXCEPT ![k] = "no"]
    /\ last' = NoSync
    /\ UNCHANGED <<ingest, roleNames, versionCap, policy, originIndexer, rbacLister, clock,
                   queue, healed, panicked>>

\* ------------------------------------------------------------------ spec
InitOver(S, cap, b) ==
    /\ budget = b
    /\ roleNames = S
    /\ versionCap = cap
    /\ policy = NoPolicy
    /\ originIndexer = [k \in IndexKeys |-> NoRole]
    /\ rbacStore = [k \in Keys |-> NoRole]
    /\ rbacLister = [k \in Keys |-> NoRole]
    /\ rbacEvents = {}
    /\ clock = 0
    /\ queue = {}
    /\ settled = [k \in Keys |-> "no"]
    /\ last = NoSync
    /\ healed = [k \in Keys |-> FALSE]
    /\ panicked = NoPanic
    /\ ingest = [todo |-> {}, cur |-> NoRole, seq |-> 0,
                 upserted |-> [k \in IndexKeys |-> 0],
                 enqueued |-> [k \in IndexKeys |-> 0]]

\* A namespace in which a single role name is in use.
Init == InitOver({"r1"}, MaxVersion, Unbounded)

\* A namespace in which both role names are in use.
InitTwoRoles ==
    InitOver(Names, MaxVersionTwoRoles, Bounded(MaxDisturbancesTwoRoles))

\* A namespace whose Policies nest, beside role r1, a role whose name holds a
\* "/" and an object without metadata.
InitMalformed == InitOver({"r1", SlashName, NoMeta}, MaxVersionMalformed, Unbounded)

Next ==
    \/ \E obj \in PoliciesOver(roleNames) : AddFunc(obj)
    \/ \E cur \in PoliciesOver(roleNames) : UpdateFunc(policy, cur)
    \/ \E obj \in DeletedObjects(policy) : DeleteFunc(obj)
    \/ \E key \in queue : processNextWorkItem(key)
    \/ \E k \in Keys : RbacInformerSync(k)
    \/ \E k \in Keys, rules \in RuleSets :
          k[2] \in roleNames /\ rules \in RulesFor(k[2]) /\ ExternalRbacCreate(k, rules)
    \/ \E k \in Keys : ExternalRbacDelete(k)

Spec == Init /\ [][Next]_vars

SpecTwoRoles == InitTwoRoles /\ [][Next]_vars

SpecMalformed == InitMalformed /\ [][Next]_vars

\* An environment that comes to rest: it has a bounded number of notifications,
\* writes of other clients and faults in store, and every deleted Policy
\* reaches DeleteFunc in a form it can decode.
InitFair == InitOver({"r1"}, MaxVersionFair, Bounded(MaxDisturbances))

Worker == \E key \in queue : processNextWorkItem(key)

Informer == \E k \in Keys : RbacInformerSync(k)

NextFair ==
    \/ \E obj \in PoliciesOver(roleNames) : AddFunc(obj)
    \/ \E cur \in PoliciesOver(roleNames) : UpdateFunc(policy, cur)
    \/ \E obj \in {policy, Tombstone(policy)} : DeleteFunc(obj)
    \/ Worker
    \/ Informer
    \/ \E k \in Keys, rules \in RuleSets :
          k[2] \in roleNames /\ rules \in RulesFor(k[2]) /\ ExternalRbacCreate(k, rules)
    \/ \E k \in Keys : ExternalRbacDelete(k)

\* The handlers run one loop statement at a time, the workers and the RBAC
\* informer running in between.
InitIngest == InitOver({"r1"}, MaxVersionIngest, Bounded(MaxDisturbancesIngest))

NextIngest ==
    \/ \E handler \in {"AddFunc", "UpdateFunc", "DeleteFunc"},
          obj \in PoliciesOver(roleNames) \cup {Tombstone(policy)} :
          HandlerEnter(handler, obj)
    \/ HandlerStep
    \/ Worker
    \/ Informer
    \/ \E k \in Keys, rules \in RuleSets :
          k[2] \in roleNames /\ rules \in RulesFor(k[2]) /\ ExternalRbacCreate(k, rules)
    \/ \E k \in Keys : ExternalRbacDelete(k)

SpecIngest == InitIngest /\ [][NextIngest]_vars

\* The workers keep taking pending keys (a failed key comes back after its
\* delay) and the RBAC informer keeps delivering the events of the API server.
SpecFair == InitFair /\ [][NextFair]_vars /\ WF_vars(Worker) /\ WF_vars(Informer)

\* ------------------------------------------------------------- properties
\* last describes the syncRole invocation of the step that led to the state, so
\* a state predicate on last speaks of the moment right after that invocation.
Synced == last.key # <<>>

\* Where the listers and the client look for the role of last.key.
LastKey ==
    LET sp == SplitMetaNamespaceKey(last.key) IN LookupKey(sp.namespace, sp.name)

\* Both lookups of the invocation were answered (found or NotFound).
LookedUp == last.rbacErr \in {Nil, ErrNotFound} /\ last.originErr \in {Nil, ErrNotFound}

SourcePresent == last.originErr = Nil
SourceAbsent == last.originErr = ErrNotFound
DerivedPresent == last.rbacErr = Nil
DerivedAbsent == last.rbacErr = ErrNotFound

\* Equal in every field other than the identity metadata.
SamePayload(a, b) ==
    a.namespace = b.namespace /\ a.name = b.name /\ a.rules = b.rules

SameIdentity(a, b) ==
    /\ a.selfLink = b.selfLink
    /\ a.uid = b.uid
    /\ a.resourceVersion = b.resourceVersion
    /\ a.creationTimestamp = b.creationTimestamp

Ops == [i \in DOMAIN last.calls |-> last.calls[i].op]

\* A call aimed at the (namespace, name) of last.key.
OnKey(c) == LookupKey(c.namespace, c.name) = LastKey

\* C1: once a Policy has been deleted while it held role K and the store held
\* K's RBAC role, a syncRole of K that finds the RBAC role still stored and
\* returns success leaves the store without an RBAC role for K.
C1_DeletedPolicyRemovesRole ==
    (/\ Synced
     /\ policy # NoPolicy /\ ~IsLive(policy)
     /\ Listed(policy.obj, last.key) /\ LastKey \in policy.derived
     /\ last.stored # NoRole
     /\ last.err = Nil)
    => rbacStore[LastKey] = NoRole

\* C2: an update notification whose new Policy no longer lists a role K that
\* the old Policy listed enqueues K.
C2_DelistedRoleIsEnqueued ==
    [][\A k \in Keys :
         (IsLive(policy) /\ IsLive(policy') /\ Listed(policy, k) /\ ~Listed(policy', k))
         => k \in queue']_vars

\* C3 as stated: after a syncRole that found the origin role and returned
\* success, the store's RBAC role for the key exists and equals the converted
\* origin role in every field but the identity metadata, whatever the branch.
C3_SuccessMeansStoreConverged ==
    (Synced /\ SourcePresent /\ last.err = Nil)
    => /\ rbacStore[LastKey] # NoRole
       /\ SamePayload(rbacStore[LastKey], Convert_api_Role_To_rbac_Role(last.originRole))

\* C3 amended: after such a syncRole, on the create and update branches the
\* store's RBAC role equals the converted origin role but for identity; on the
\* no-op branch the RBAC role read from the lister does, and the store's role
\* does too when the lister's entry was the store's.
C3_SuccessMeansConverged ==
    (Synced /\ SourcePresent /\ last.err = Nil)
    => LET want == Convert_api_Role_To_rbac_Role(last.originRole) IN
       IF last.calls = <<>>
       THEN /\ DerivedPresent
            /\ SamePayload(last.rbacRole, want)
            /\ (last.rbacRole = last.stored
                  => rbacStore[LastKey] # NoRole /\ SamePayload(rbacStore[LastKey], want))
       ELSE /\ Ops \in {<<"create">>, <<"update">>}
            /\ rbacStore[LastKey] # NoRole
            /\ SamePayload(rbacStore[LastKey], want)

C3_Witness ==
    /\ Synced /\ SourcePresent /\ last.err = Nil
    /\ Ops = <<"update">>
    /\ last.rbacRole.rules # last.originRole.rules

\* C4: every update call writes the unique identifier, version token, creation
\* timestamp and reference link of the RBAC role read at the start of the
\* invocation, none of them the converter's default.
C4_UpdateKeepsIdentity ==
    \A i \in DOMAIN last.calls :
        last.calls[i].op = "update"
        => /\ DerivedPresent
           /\ SameIdentity(last.calls[i].obj, last.rbacRole)
           /\ last.calls[i].obj.selfLink # DefaultSelfLink
           /\ last.calls[i].obj.uid # DefaultUID
           /\ last.calls[i].obj.resourceVersion # DefaultResourceVersion
           /\ last.calls[i].obj.creationTimestamp # DefaultCreationTimestamp

C4_Witness ==
    /\ Synced /\ Len(last.calls) = 1
    /\ last.calls[1].op = "update" /\ last.calls[1].err = Nil
    /\ last.calls[1].obj.resourceVersion > last.calls[1].obj.uid

\* C5: when the update call returns Invalid, exactly one delete call for the
\* same namespace and name follows it, and syncRole returns the Invalid error
\* whatever the delete returns.
C5_InvalidUpdateDeletesAndReturnsInvalid ==
    (\E i \in DOMAIN last.calls :
        last.calls[i].op = "update" /\ last.calls[i].err = ErrInvalid)
    => /\ Ops = <<"update", "delete">>
       /\ last.calls[1].err = ErrInvalid
       /\ OnKey(last.calls[1]) /\ OnKey(last.calls[2])
       /\ last.err = ErrInvalid

C5_Witness ==
    /\ Synced /\ Ops = <<"update", "delete">>
    /\ last.calls[1].err = ErrInvalid
    /\ last.calls[2].err = ErrServer
    /\ last.err = ErrInvalid

\* C6: a syncRole that finds the origin role absent and the RBAC role present
\* issues exactly one delete call, for the key's namespace and name, and no
\* create or update call.
C6_OrphanIsDeletedOnce ==
    (Synced /\ SourceAbsent /\ DerivedPresent)
    => /\ Ops = <<"delete">>
       /\ OnKey(last.calls[1])

C6_Witness ==
    /\ Synced /\ SourceAbsent /\ DerivedPresent
    /\ Ops = <<"delete">> /\ last.calls[1].err = Nil
    /\ last.stored # NoRole /\ rbacStore[LastKey] = NoRole

\* C7: when the delete call of the orphan branch returns NotFound, syncRole
\* returns success.
C7_OrphanDeleteNotFoundIsSuccess ==
    (/\ Synced /\ SourceAbsent /\ DerivedPresent
     /\ Ops = <<"delete">> /\ last.calls[1].err = ErrNotFound)
    => last.err = Nil

\* C8 as stated: one syncRole issues at most one create, update or delete call.
C8_AtMostOneWrite == Len(last.calls) <= 1

\* C8 amended: one syncRole issues at most one call, but for an update that
\* returns Invalid, which one delete call follows.
C8_AtMostOneWriteButSelfHeal ==
    \/ Len(last.calls) <= 1
    \/ /\ Ops = <<"update", "delete">>
       /\ last.calls[1].err = ErrInvalid

C8_Witness ==
    /\ Synced /\ Len(last.calls) = 2
    /\ last.calls[2].err = Nil
    /\ rbacStore[LastKey] = NoRole

\* C9 as stated: a syncRole of a key whose previous syncRole returned success,
\* with the origin role and the stored RBAC role unchanged since, issues no
\* call and returns success (lookups being answered).
C9_ReplayIsNoOp ==
    (Synced /\ last.replay # "no" /\ LookedUp)
    => last.calls = <<>> /\ last.err = Nil

\* C9 amended: such a syncRole issues no call and returns success when at both
\* invocations the lister's entry for the key was the store's current entry.
C9_ReplayIsNoOpOnceListerCaughtUp ==
    (Synced /\ last.replay = "current" /\ LookedUp /\ last.rbacRole = last.stored)
    => last.calls = <<>> /\ last.err = Nil

C9_Witness ==
    /\ Synced /\ last.replay = "current" /\ LookedUp /\ last.rbacRole = last.stored
    /\ SourcePresent /\ DerivedPresent
    /\ last.calls = <<>> /\ last.err = Nil

\* C10: when both roles are found and the converted origin role equals the
\* existing RBAC role but for the identity metadata, and when neither role is
\* found, syncRole returns success and issues no call.
C10_NoOpWhenEqualOrBothAbsent ==
    /\ (/\ Synced /\ SourcePresent /\ DerivedPresent
        /\ SamePayload(Convert_api_Role_To_rbac_Role(last.originRole), last.rbacRole))
       => last.calls = <<>> /\ last.err = Nil
    /\ (Synced /\ SourceAbsent /\ DerivedAbsent)
       => last.calls = <<>> /\ last.err = Nil

C10_Witness ==
    /\ Synced /\ SourcePresent /\ DerivedPresent
    /\ last.calls = <<>> /\ last.err = Nil
    /\ last.rbacRole.resourceVersion > last.rbacRole.uid

\* C11: a syncRole that finds the origin role and no RBAC role issues exactly
\* one call, a create for the key's namespace and name whose object is the
\* converted origin role with an empty resource version, and returns what the
\* create call returned.
C11_CreatePath ==
    (Synced /\ SourcePresent /\ DerivedAbsent)
    => /\ Ops = <<"create">>
       /\ OnKey(last.calls[1])
       /\ last.calls[1].obj =
            [Convert_api_Role_To_rbac_Role(last.originRole)
                EXCEPT !.resourceVersion = DefaultResourceVersion]
       /\ last.err = last.calls[1].err

C11_Witness ==
    /\ Synced /\ SourcePresent /\ DerivedAbsent
    /\ Ops = <<"create">>
    /\ last.calls[1].err = ErrAlreadyExists /\ last.err = ErrAlreadyExists

\* C12: DeleteFunc handed an object that is neither a Policy nor a tombstone
\* holding a Policy reports the error and returns: it does not panic.
C12_UndecodableDeleteReturns ==
    panicked.panic => DecodeDeleted(panicked.obj) # NilPolicy

\* A lookup error other than NotFound.
LookupFailed(err) == err \notin {Nil, ErrNotFound, NotRead}

\* C13: a syncRole of a key of more than two segments returns the parse error,
\* one whose RBAC or origin lookup fails with an error other than NotFound
\* returns that error, and each of them issues no call; a NotFound of a lookup
\* is never what syncRole returns: it returns success or the error of its call.
C13_EarlyAbortIssuesNoCall ==
    Synced =>
      /\ Len(last.key) > 2 => last.err = ErrBadKey /\ last.calls = <<>>
      /\ LookupFailed(last.rbacErr) => last.err = last.rbacErr /\ last.calls = <<>>
      /\ LookupFailed(last.originErr) => last.err = last.originErr /\ last.calls = <<>>
      /\ (LookedUp /\ (DerivedAbsent \/ SourceAbsent))
         => last.err = IF last.calls = <<>> THEN Nil ELSE last.calls[1].err

C13_Witness ==
    /\ Synced /\ Len(last.key) > 2
    /\ last.err = ErrBadKey /\ last.calls = <<>>
    /\ last.key \in queue

\* C14: AddFunc and UpdateFunc leave every nested object whose key can be
\* computed in originIndexer under that key, and the key in the queue, whatever
\* else the Policy nests; an object whose key cannot be computed is left out
\* of originIndexer and adds no key to the queue.
C14_KeyedObjectsAreIngested ==
    [][(IsLive(policy') /\ policy' # policy)
       => LET keyed == {r \in RolesOf(policy') : KeyFunc(r).err = Nil} IN
          /\ \A r \in keyed :
                /\ originIndexer'[KeyFunc(r).key] = r
                /\ KeyFunc(r).key \in queue'
          /\ \A r \in RolesOf(policy') \ keyed :
                \A k \in DOMAIN originIndexer' : originIndexer'[k] # r
          /\ queue' \subseteq queue \cup {KeyFunc(r).key : r \in keyed}]_vars

C14_Witness ==
    /\ last = NoSync /\ IsLive(policy)
    /\ DOMAIN policy.roles = {"r1", NoMeta}
    /\ queue = {<<Namespace, "r1">>}
    /\ originIndexer[<<Namespace, "r1">>] = OriginRole(Namespace, "r1", policy.roles["r1"])
    /\ rbacStore[<<Namespace, "r1">>] = NoRole /\ clock = 0

\* The store's RBAC role of k is the converted origin role of k but for the
\* identity metadata.
Converged(k) ==
    /\ originIndexer[k] # NoRole
    /\ rbacStore[k] # NoRole
    /\ SamePayload(rbacStore[k], Convert_api_Role_To_rbac_Role(originIndexer[k]))

\* C15: once the notifications, the writes of other clients and the faults have
\* come to an end, under fair scheduling of the workers and of the RBAC
\* informer, the store's RBAC role of every key that has an origin role in
\* originIndexer comes to equal the converted origin role but for the identity
\* metadata, and stays so.
C15_EventuallyConvergedForGood ==
    <>[](\A k \in Keys : originIndexer[k] # NoRole => Converged(k))

C15_Witness ==
    /\ budget.left = 0 /\ queue = {} /\ rbacEvents = {}
    /\ originIndexer[<<Namespace, "r1">>] # NoRole
    /\ Converged(<<Namespace, "r1">>)
    /\ rbacStore[<<Namespace, "r1">>].resourceVersion > rbacStore[<<Namespace, "r1">>].uid

\* The version counter stays below its cap.
CapOutOfReach == clock < versionCap

\* C16 as stated: the syncRole that follows, for the same key, one whose
\* update was invalid and whose delete succeeded, finding the origin role,
\* issues one create call and no other.
C16_NextSyncAfterSelfHealCreates ==
    (Synced /\ last.healed /\ SourcePresent /\ LookedUp)
    => Ops = <<"create">>

\* C16 amended: after a syncRole whose update was invalid and whose delete
\* succeeded, the error is returned and the key stays pending; the next
\* syncRole of the key, finding the origin role, issues one create call and no
\* other when the lister no longer holds an RBAC role for the key, after which,
\* the create succeeding, the store's role is the converted origin role but
\* for identity; it issues no create call while the lister still holds one;
\* and under fair scheduling the store's role comes to be the converted origin
\* role but for identity.
C16_SelfHealLeadsToRecreation ==
    /\ [](SelfHealed(last.calls) => last.err = ErrInvalid /\ rbacStore[LastKey] = NoRole)
    /\ [](\A k \in Keys : healed[k] => k \in queue)
    /\ []((Synced /\ last.healed /\ SourcePresent /\ LookedUp)
          => IF DerivedAbsent
             THEN /\ Ops = <<"create">>
                  /\ last.err = Nil => Converged(LastKey)
             ELSE \A i \in DOMAIN last.calls : last.calls[i].op # "create")
    /\ (\E k \in Keys : healed[k])
          ~> (\A k \in Keys : originIndexer[k] # NoRole => Converged(k))

C16_Witness ==
    /\ Synced /\ last.healed /\ SourcePresent /\ DerivedAbsent
    /\ Ops = <<"create">> /\ last.err = Nil
    /\ Converged(LastKey)

\* C17: when the update call of a syncRole returns an error that is not
\* Invalid, the update is the only call, the store is left as it was and
\* syncRole returns the error of the update.
C17_OtherUpdateErrorsDeleteNothing ==
    (/\ Synced /\ last.calls # <<>>
     /\ last.calls[1].op = "update"
     /\ last.calls[1].err \notin {Nil, ErrInvalid})
    => /\ Ops = <<"update">>
       /\ last.err = last.calls[1].err
       /\ rbacStore[LastKey] = last.stored

C17_Witness ==
    /\ Synced /\ Ops = <<"update">>
    /\ last.calls[1].err = ErrConflict /\ last.err = ErrConflict
    /\ last.stored # NoRole /\ rbacStore[LastKey] = last.stored

\* C18: no step takes an origin role out of originIndexer; DeleteFunc leaves
\* every role of the deleted Policy in it; and a syncRole of a key that
\* originIndexer holds a role for, its origin lookup being answered, finds the
\* origin role.
C18_IndexerNeverShrinks ==
    /\ [][\A k \in DOMAIN originIndexer :
            originIndexer[k] # NoRole => originIndexer'[k] # NoRole]_vars
    /\ [][(IsLive(policy) /\ ~IsLive(policy'))
          => \A r \in RolesOf(policy) :
                KeyFunc(r).err = Nil => originIndexer'[KeyFunc(r).key] = r]_vars
    /\ []((Synced /\ LookedUp /\ Lookup(originIndexer, LastKey) # NoRole)
          => SourcePresent /\ last.originRole = originIndexer[LastKey])

C18_Witness ==
    /\ policy # NoPolicy /\ ~IsLive(policy)
    /\ Synced /\ LookedUp /\ Listed(policy.obj, last.key)
    /\ SourcePresent /\ last.originRole = originIndexer[LastKey]
    /\ last.calls = <<>> /\ last.stored # NoRole

\* C19: every call of a syncRole is for the namespace and name of its key; the
\* step leaves the stored RBAC role of every other key, originIndexer and the
\* set of pending keys as they were, but for its own key leaving the queue.
C19_SyncRoleFrame ==
    [][last'.key # <<>>
       => LET sp == SplitMetaNamespaceKey(last'.key)
              own == LookupKey(sp.namespace, sp.name) IN
          /\ \A i \in DOMAIN last'.calls :
                LookupKey(last'.calls[i].namespace, last'.calls[i].name) = own
          /\ \A k \in Keys \ {own} : rbacStore'[k] = rbacStore[k]
          /\ originIndexer' = originIndexer
          /\ queue' \subseteq queue
          /\ queue \ queue' \subseteq {last'.key}]_vars

C19_Witness ==
    /\ Synced /\ last.key = <<Namespace, "r1">>
    /\ Ops = <<"delete">> /\ last.err = Nil
    /\ rbacStore[<<Namespace, "r1">>] = NoRole
    /\ rbacStore[<<Namespace, "r2">>] # NoRole
    /\ <<Namespace, "r2">> \in queue

\* C20: every key that a handler has enqueued has in originIndexer an object
\* upserted by the notification that last enqueued it or by a later one,
\* whatever runs between the statements of the handlers.
C20_UpsertPrecedesEnqueue ==
    \A k \in IndexKeys :
        ingest.enqueued[k] > 0
        => /\ originIndexer[k] # NoRole
           /\ ingest.upserted[k] >= ingest.enqueued[k]

C20_Witness ==
    /\ ~Idle /\ ingest.cur # NoRole /\ ingest.seq > 1
    /\ ingest.upserted[<<Namespace, "r1">>] = ingest.seq
    /\ ingest.enqueued[<<Namespace, "r1">>] = ingest.seq - 1
    /\ <<Namespace, "r1">> \in queue

====
